---- MODULE Spec2Model ----
(***************************************************************************)
(* Model of tools/dtln/export_dtln_weights.py: the exporter that packs the *)
(* DTLN tensors of two ONNX models into one binary blob plus a JSON        *)
(* manifest, together with the blob reader that spec.md describes, and of   *)
(* the best-trial bookkeeping of test_automation/auto_tune.py.             *)
(*                                                                         *)
(* Bytes are integers 0..255, files are sequences of bytes, tensor names   *)
(* are sequences of Unicode code points, tensor elements are small         *)
(* integers (exactly representable as float32).                            *)
(***************************************************************************)
EXTENDS Integers, Sequences, FiniteSets, TLC

(***************************************************************************)
(* Bounds of the model.                                                    *)
(***************************************************************************)
\* every dimension of TENSOR_ORDER is cut down to at most ScaleDim
ScaleDim == 1
\* number of export runs in one behaviour
MaxRuns == 2

\* an export that stops while writing stops at most this many bytes after the
\* start or before the end of one write call
MaxCut == 1

\* number of readers that read one blob file at the same time
NumReaders == 2

\* largest number of trials asked of one optimization (--trials)
MaxTrials == 2

\* the composite scores of the trials are -inf, nan and 0..MaxScore
MaxScore == 1

\* the sampler suggests every parameter among its first MaxStep + 1 steps of 0.05
MaxStep == 1

(***************************************************************************)
(* Header constants for the binary format.                                 *)
(***************************************************************************)
\* b"DTLN"
MAGIC == <<68, 84, 76, 78>>
VERSION == 1
ENDIANNESS == 0
DTYPE_F32 == 0

\* a list in which the second stage has a tensor with a name of the first stage
TensorOrderSharedName ==
  <<
      (* lstm_4_W *)
      [name |-> <<108, 115, 116, 109, 95, 52, 95, 87>>,
       shape |-> <<1, 512, 257>>, stage |-> "stage1"],
      (* lstm_4_R *)
      [name |-> <<108, 115, 116, 109, 95, 52, 95, 82>>,
       shape |-> <<1, 512, 128>>, stage |-> "stage1"],
      (* lstm_4_W *)
      [name |-> <<108, 115, 116, 109, 95, 52, 95, 87>>,
       shape |-> <<256, 512>>, stage |-> "stage2"]
  >>

\* a list in which the first entry is written twice
TensorOrderRepeated ==
  <<
      (* lstm_4_W *)
      [name |-> <<108, 115, 116, 109, 95, 52, 95, 87>>,
       shape |-> <<1, 512, 257>>, stage |-> "stage1"],
      (* lstm_4_W *)
      [name |-> <<108, 115, 116, 109, 95, 52, 95, 87>>,
       shape |-> <<1, 512, 257>>, stage |-> "stage1"],
      (* conv1d_2/kernel:0 *)
      [name |-> <<99, 111, 110, 118, 49, 100, 95, 50, 47, 107, 101, 114, 110, 101, 108, 58, 48>>,
       shape |-> <<256, 512, 1>>, stage |-> "stage2"]
  >>

(***************************************************************************)
(* Tensor ordering definitions that must stay stable.                      *)
(***************************************************************************)
TENSOR_ORDER ==
  <<
      (* lstm_4_W *)
      [name |-> <<108, 115, 116, 109, 95, 52, 95, 87>>,
       shape |-> <<1, 512, 257>>, stage |-> "stage1"],
      (* lstm_4_R *)
      [name |-> <<108, 115, 116, 109, 95, 52, 95, 82>>,
       shape |-> <<1, 512, 128>>, stage |-> "stage1"],
      (* lstm_4_B *)
      [name |-> <<108, 115, 116, 109, 95, 52, 95, 66>>,
       shape |-> <<1, 1024>>, stage |-> "stage1"],
      (* lstm_5_W *)
      [name |-> <<108, 115, 116, 109, 95, 53, 95, 87>>,
       shape |-> <<1, 512, 128>>, stage |-> "stage1"],
      (* lstm_5_R *)
      [name |-> <<108, 115, 116, 109, 95, 53, 95, 82>>,
       shape |-> <<1, 512, 128>>, stage |-> "stage1"],
      (* lstm_5_B *)
      [name |-> <<108, 115, 116, 109, 95, 53, 95, 66>>,
       shape |-> <<1, 1024>>, stage |-> "stage1"],
      (* dense_2/kernel:0 *)
      [name |-> <<100, 101, 110, 115, 101, 95, 50, 47, 107, 101, 114, 110, 101, 108, 58, 48>>,
       shape |-> <<128, 257>>, stage |-> "stage1"],
      (* dense_2/bias:0 *)
      [name |-> <<100, 101, 110, 115, 101, 95, 50, 47, 98, 105, 97, 115, 58, 48>>,
       shape |-> <<257>>, stage |-> "stage1"],
      (* conv1d_2/kernel:0 *)
      [name |-> <<99, 111, 110, 118, 49, 100, 95, 50, 47, 107, 101, 114, 110, 101, 108, 58, 48>>,
       shape |-> <<256, 512, 1>>, stage |-> "stage2"],
      (* conv1d_3/kernel:0 *)
      [name |-> <<99, 111, 110, 118, 49, 100, 95, 51, 47, 107, 101, 114, 110, 101, 108, 58, 48>>,
       shape |-> <<512, 256, 1>>, stage |-> "stage2"],
      (* model_2/instant_layer_normalization_1/mul/ReadVariableOp/resource:0 *)
      [name |-> <<109, 111, 100, 101, 108, 95, 50, 47, 105, 110, 115, 116, 97, 110, 116, 95, 108, 97, 121, 101, 114, 95, 110, 111, 114, 109, 97, 108, 105, 122, 97, 116, 105, 111, 110, 95, 49, 47, 109, 117, 108, 47, 82, 101, 97, 100, 86, 97, 114, 105, 97, 98, 108, 101, 79, 112, 47, 114, 101, 115, 111, 117, 114, 99, 101, 58, 48>>,
       shape |-> <<256>>, stage |-> "stage2"],
      (* model_2/instant_layer_normalization_1/add_1/ReadVariableOp/resource:0 *)
      [name |-> <<109, 111, 100, 101, 108, 95, 50, 47, 105, 110, 115, 116, 97, 110, 116, 95, 108, 97, 121, 101, 114, 95, 110, 111, 114, 109, 97, 108, 105, 122, 97, 116, 105, 111, 110, 95, 49, 47, 97, 100, 100, 95, 49, 47, 82, 101, 97, 100, 86, 97, 114, 105, 97, 98, 108, 101, 79, 112, 47, 114, 101, 115, 111, 117, 114, 99, 101, 58, 48>>,
       shape |-> <<256>>, stage |-> "stage2"],
      (* model_2/lstm_6/MatMul/ReadVariableOp/resource:0 *)
      [name |-> <<109, 111, 100, 101, 108, 95, 50, 47, 108, 115, 116, 109, 95, 54, 47, 77, 97, 116, 77, 117, 108, 47, 82, 101, 97, 100, 86, 97, 114, 105, 97, 98, 108, 101, 79, 112, 47, 114, 101, 115, 111, 117, 114, 99, 101, 58, 48>>,
       shape |-> <<256, 512>>, stage |-> "stage2"],
      (* model_2/lstm_6/MatMul_1/ReadVariableOp/resource:0 *)
      [name |-> <<109, 111, 100, 101, 108, 95, 50, 47, 108, 115, 116, 109, 95, 54, 47, 77, 97, 116, 77, 117, 108, 95, 49, 47, 82, 101, 97, 100, 86, 97, 114, 105, 97, 98, 108, 101, 79, 112, 47, 114, 101, 115, 111, 117, 114, 99, 101, 58, 48>>,
       shape |-> <<128, 512>>, stage |-> "stage2"],
      (* model_2/lstm_6/BiasAdd/ReadVariableOp/resource:0 *)
      [name |-> <<109, 111, 100, 101, 108, 95, 50, 47, 108, 115, 116, 109, 95, 54, 47, 66, 105, 97, 115, 65, 100, 100, 47, 82, 101, 97, 100, 86, 97, 114, 105, 97, 98, 108, 101, 79, 112, 47, 114, 101, 115, 111, 117, 114, 99, 101, 58, 48>>,
       shape |-> <<512>>, stage |-> "stage2"],
      (* model_2/lstm_7/MatMul/ReadVariableOp/resource:0 *)
      [name |-> <<109, 111, 100, 101, 108, 95, 50, 47, 108, 115, 116, 109, 95, 55, 47, 77, 97, 116, 77, 117, 108, 47, 82, 101, 97, 100, 86, 97, 114, 105, 97, 98, 108, 101, 79, 112, 47, 114, 101, 115, 111, 117, 114, 99, 101, 58, 48>>,
       shape |-> <<128, 512>>, stage |-> "stage2"],
      (* model_2/lstm_7/MatMul_1/ReadVariableOp/resource:0 *)
      [name |-> <<109, 111, 100, 101, 108, 95, 50, 47, 108, 115, 116, 109, 95, 55, 47, 77, 97, 116, 77, 117, 108, 95, 49, 47, 82, 101, 97, 100, 86, 97, 114, 105, 97, 98, 108, 101, 79, 112, 47, 114, 101, 115, 111, 117, 114, 99, 101, 58, 48>>,
       shape |-> <<128, 512>>, stage |-> "stage2"],
      (* model_2/lstm_7/BiasAdd/ReadVariableOp/resource:0 *)
      [name |-> <<109, 111, 100, 101, 108, 95, 50, 47, 108, 115, 116, 109, 95, 55, 47, 66, 105, 97, 115, 65, 100, 100, 47, 82, 101, 97, 100, 86, 97, 114, 105, 97, 98, 108, 101, 79, 112, 47, 114, 101, 115, 111, 117, 114, 99, 101, 58, 48>>,
       shape |-> <<512>>, stage |-> "stage2"],
      (* model_2/dense_3/Tensordot/Reshape_1:0 *)
      [name |-> <<109, 111, 100, 101, 108, 95, 50, 47, 100, 101, 110, 115, 101, 95, 51, 47, 84, 101, 110, 115, 111, 114, 100, 111, 116, 47, 82, 101, 115, 104, 97, 112, 101, 95, 49, 58, 48>>,
       shape |-> <<128, 256>>, stage |-> "stage2"],
      (* model_2/dense_3/BiasAdd/ReadVariableOp/resource:0 *)
      [name |-> <<109, 111, 100, 101, 108, 95, 50, 47, 100, 101, 110, 115, 101, 95, 51, 47, 66, 105, 97, 115, 65, 100, 100, 47, 82, 101, 97, 100, 86, 97, 114, 105, 97, 98, 108, 101, 79, 112, 47, 114, 101, 115, 111, 117, 114, 99, 101, 58, 48>>,
       shape |-> <<256>>, stage |-> "stage2"]
  >>

(***************************************************************************)
(* Generic helpers.                                                        *)
(***************************************************************************)
Min(a, b) == IF a < b THEN a ELSE b

RECURSIVE Product(_)
Product(s) == IF s = <<>> THEN 1 ELSE Head(s) * Product(Tail(s))

RECURSIVE Concat(_)
\* b"".join(parts)
Concat(parts) == IF parts = <<>> THEN <<>> ELSE Head(parts) \o Concat(Tail(parts))

RECURSIVE Pow2(_)
Pow2(n) == IF n = 0 THEN 1 ELSE 2 * Pow2(n - 1)

RECURSIVE Log2Floor(_)
Log2Floor(v) == IF v < 2 THEN 0 ELSE 1 + Log2Floor(v \div 2)

(***************************************************************************)
(* struct.pack with the "<B", "<H" and "<I" formats: little-endian, and    *)
(* struct.error when the value does not fit the field.                     *)
(***************************************************************************)
FitsU8(v)  == v >= 0 /\ v <= 255
FitsU16(v) == v >= 0 /\ v <= 65535
FitsU32(v) == v >= 0 /\ v \div 65536 <= 65535

PackU8(v)  == <<v>>
PackU16(v) == <<v % 256, (v \div 256) % 256>>
PackU32(v) == <<v % 256, (v \div 256) % 256, (v \div 65536) % 256, (v \div 16777216) % 256>>

(***************************************************************************)
(* str.encode("utf-8") of one code point and of a name.                    *)
(***************************************************************************)
Utf8CodePoint(c) ==
  IF c < 128 THEN <<c>>
  ELSE IF c < 2048 THEN <<192 + (c \div 64), 128 + (c % 64)>>
  ELSE IF c < 65536 THEN <<224 + (c \div 4096), 128 + ((c \div 64) % 64), 128 + (c % 64)>>
  ELSE <<240 + (c \div 262144), 128 + ((c \div 4096) % 64), 128 + ((c \div 64) % 64), 128 + (c % 64)>>

\* an all-ASCII name is its own encoding
Utf8Encode(name) ==
  IF \A k \in 1..Len(name) : name[k] < 128 THEN name
  ELSE Concat([k \in 1..Len(name) |-> Utf8CodePoint(name[k])])

(***************************************************************************)
(* IEEE-754 binary32, little-endian, of an integer |v| < 2^24: what        *)
(* array.astype("float32").tobytes(order="C") yields for one element.      *)
(***************************************************************************)
Float32LE(v) ==
  LET a    == IF v < 0 THEN -v ELSE v
      sign == IF v < 0 THEN 1 ELSE 0
      e    == Log2Floor(a)
      expo == IF a = 0 THEN 0 ELSE e + 127
      mant == IF a = 0 THEN 0 ELSE (a - Pow2(e)) * Pow2(23 - e)
  IN  <<mant % 256,
        (mant \div 256) % 256,
        (expo % 2) * 128 + (mant \div 65536),
        sign * 128 + (expo \div 2)>>

\* hashlib.sha256(data).hexdigest(), idealised as collision-free: the digest
\* of a byte string is a value that determines the byte string.
Sha256Hex(data) == <<"sha256", data>>

(***************************************************************************)
(* Python dicts, as the sequence of their items in insertion order.        *)
(***************************************************************************)
DictHas(d, key) == \E k \in 1..Len(d) : d[k].key = key

DictGet(d, key) == d[CHOOSE k \in 1..Len(d) : d[k].key = key].value

\* d[key] = value: a present key keeps its place and takes the new value
DictSet(d, key, value) ==
  IF DictHas(d, key)
  THEN [k \in 1..Len(d) |-> IF d[k].key = key THEN [key |-> key, value |-> value] ELSE d[k]]
  ELSE Append(d, [key |-> key, value |-> value])

DictKeys(d) == {d[k].key : k \in 1..Len(d)}

\* two dicts hold the same mapping, whatever their iteration order
SameMapping(d1, d2) ==
  /\ DictKeys(d1) = DictKeys(d2)
  /\ \A key \in DictKeys(d1) : DictGet(d1, key) = DictGet(d2, key)

(***************************************************************************)
(* The ONNX side.  An initializer is [name, dims, vals]: its name, its     *)
(* dims field and its elements in row-major order.  A model file is the    *)
(* sequence model.graph.initializer.                                       *)
(***************************************************************************)
RECURSIVE load_initializers(_)
\* {init.name: init for init in model.graph.initializer}
load_initializers(inits) ==
  IF inits = <<>> THEN <<>>
  ELSE LET last == inits[Len(inits)]
       IN  DictSet(load_initializers(SubSeq(inits, 1, Len(inits) - 1)), last.name, last)

\* numpy_helper.to_array reshapes the elements to dims and raises when the
\* element count is not the product of dims
ToArrayOk(init) == Len(init.vals) = Product(init.dims)

float32_bytes_from_initializer(init) ==
  Concat([k \in 1..Len(init.vals) |-> Float32LE(init.vals[k])])

infer_shape(init) == init.dims

(***************************************************************************)
(* Inputs of the model: catalogs and, for each, the model files the        *)
(* exporter may find.                                                      *)
(***************************************************************************)
Initializer(name, dims, vals) == [name |-> name, dims |-> dims, vals |-> vals]

Entry(name, shape, stage) == [name |-> name, shape |-> shape, stage |-> stage]

\* TENSOR_ORDER with every dimension cut down to ScaleDim
ScaledOrder ==
  [k \in 1..Len(TENSOR_ORDER) |->
     [TENSOR_ORDER[k] EXCEPT !.shape = [d \in 1..Len(@) |-> Min(@[d], ScaleDim)]]]

\* the initializers of one stage that satisfy ScaledOrder; element values vary with
\* the position so that no two tensors carry the same bytes
RECURSIVE StageInits(_, _)
StageInits(stage, k) ==
  IF k = 0 THEN <<>>
  ELSE LET e == ScaledOrder[k]
       IN  IF e.stage = stage
           THEN Append(StageInits(stage, k - 1),
                       Initializer(e.name, e.shape, [j \in 1..Product(e.shape) |-> k + j - 4]))
           ELSE StageInits(stage, k - 1)

ScaledModels ==
  {[stage1 |-> StageInits("stage1", Len(ScaledOrder)),
    stage2 |-> StageInits("stage2", Len(ScaledOrder))]}

\* names "a", "b", "x", "k" and one with a two-byte code point
NameA == <<97>>
NameB == <<98>>
NameX == <<120>>
NameK == <<107>>
NameE == <<233, 49>>

\* the catalog of the example scenario
ExampleOrder == <<Entry(NameA, <<2, 2>>, "stage1"), Entry(NameB, <<3>>, "stage1")>>

TA     == Initializer(NameA, <<2, 2>>, <<1, 2, 3, 4>>)
TAalt  == Initializer(NameA, <<2, 2>>, <<4, 3, 0, -1>>)
TAflat == Initializer(NameA, <<4>>, <<1, 2, 3, 4>>)
TA23   == Initializer(NameA, <<2, 3>>, <<1, 2, 3, 4, 5, 6>>)
TB     == Initializer(NameB, <<3>>, <<5, 6, 7>>)
TBrank == Initializer(NameB, <<1, 3>>, <<5, 6, 7>>)
TBshort == Initializer(NameB, <<3>>, <<5, 6>>)
TX     == Initializer(NameX, <<1>>, <<0>>)

ExampleModels ==
  {[stage1 |-> <<TA, TB>>,        stage2 |-> <<>>],
   [stage1 |-> <<TB, TA>>,        stage2 |-> <<>>],
   [stage1 |-> <<TX, TB, TA>>,    stage2 |-> <<TX>>],
   [stage1 |-> <<TAalt, TB>>,     stage2 |-> <<>>],
   [stage1 |-> <<TAalt, TB, TA>>, stage2 |-> <<>>],
   [stage1 |-> <<TB>>,            stage2 |-> <<TA>>],
   [stage1 |-> <<TA>>,            stage2 |-> <<TB>>],
   [stage1 |-> <<TAflat, TB>>,    stage2 |-> <<>>],
   [stage1 |-> <<TA23, TBrank>>,  stage2 |-> <<>>],
   [stage1 |-> <<TA, TBrank>>,    stage2 |-> <<>>],
   [stage1 |-> <<TAflat>>,        stage2 |-> <<>>],
   [stage1 |-> <<TA, TBshort>>,   stage2 |-> <<>>]}

\* a catalog over both stages
MixedOrder ==
  <<Entry(NameK, <<1, 2>>, "stage1"), Entry(NameE, <<2>>, "stage2"), Entry(NameB, <<1>>, "stage1")>>

TK     == Initializer(NameK, <<1, 2>>, <<1, -2>>)
TKwide == Initializer(NameK, <<2, 1>>, <<1, -2>>)
TE     == Initializer(NameE, <<2>>, <<3, 7>>)
TB1    == Initializer(NameB, <<1>>, <<6>>)

MixedModels ==
  {[stage1 |-> <<TK, TB1>>,      stage2 |-> <<TE>>],
   [stage1 |-> <<TB1, TK>>,      stage2 |-> <<TE, TX>>],
   [stage1 |-> <<TK, TE, TB1>>,  stage2 |-> <<TK>>],
   [stage1 |-> <<TKwide, TB1>>,  stage2 |-> <<TE>>],
   [stage1 |-> <<TK>>,           stage2 |-> <<TE, TB1>>]}

\* every (catalog, model files) pair of the model
Inputs ==
  {[catalog |-> ExampleOrder, files |-> m] : m \in ExampleModels}
    \cup {[catalog |-> MixedOrder, files |-> m] : m \in MixedModels}
    \cup {[catalog |-> ScaledOrder, files |-> m] : m \in ScaledModels}

Stages == {"stage1", "stage2"}

(***************************************************************************)
(* State of the exporter.                                                  *)
(***************************************************************************)
VARIABLES
  catalog,    \* the tensor catalog the exporter iterates (TENSOR_ORDER)
  files,      \* model_1.onnx and model_2.onnx: stage -> sequence of initializers
  models,     \* main's models: stage -> dict of initializers
  pc,         \* position of main
  idx,        \* index of the running for loop
  entries,    \* main's entries list
  offset,     \* main's offset
  blob,       \* the file at BLOB_PATH
  manifest,   \* the file at MANIFEST_PATH
  error,      \* the exception main ended with
  run,        \* number of the export run
  history,    \* what each completed run read and wrote
  handle,     \* the reader's handle
  result,     \* what the reader's last tensor or verify call returned
  tamper,     \* position of the byte of the blob file that was edited after the export, or 0
  tamper2,    \* position of a second edited byte, or 0
  torn,       \* the blob file was left by an export that stopped while writing it
  readers,    \* handle and last result of each of the readers that share the blob file
  n_trials,     \* auto_tune: the number of trials main asks of optimize
  study,        \* auto_tune: the trials of the Optuna study, parameters and returned value
  trial_count,  \* VSTOptimizer.trial_count
  best_score,   \* VSTOptimizer.best_score
  best_params,  \* VSTOptimizer.best_params
  written,      \* auto_tune: what this run wrote into the output directory
  returned,     \* auto_tune: main's best_params, the value optimize returned
  exit_status,  \* auto_tune: the exit status of main
  tunePc        \* auto_tune: position of main

writerVars == <<catalog, files, models, pc, idx, entries, offset, blob, manifest, error, run, history>>

readerVars == <<handle, result, tamper, tamper2, torn>>

optimizerVars ==
  <<n_trials, study, trial_count, best_score, best_params, written, returned, exit_status, tunePc>>

NoError == [kind |-> "none", name |-> <<>>, stage |-> "", expected |-> <<>>, actual |-> <<>>]

NoFile == [exists |-> FALSE, bytes |-> <<>>]

NoManifest ==
  [exists |-> FALSE, doc |-> [version |-> 0, dtype |-> "", tensor_count |-> 0, tensors |-> <<>>]]

NoModels == [s \in Stages |-> <<>>]

WriterInit ==
  /\ \E input \in Inputs : catalog = input.catalog /\ files = input.files
  /\ models = NoModels
  /\ pc = "load"
  /\ idx = 1
  /\ entries = <<>>
  /\ offset = 0
  /\ blob = NoFile
  /\ manifest = NoManifest
  /\ error = NoError
  /\ run = 1
  /\ history = <<>>

(***************************************************************************)
(* main, lines 72-75: both model files are loaded.                         *)
(***************************************************************************)
\* lines 72-75 with the blob file opened for writing before the loop over the catalog
LoadModelsOpeningBlob ==
  /\ pc = "load"
  /\ models' = [s \in Stages |-> load_initializers(files[s])]
  /\ entries' = <<>>
  /\ idx' = 1
  /\ pc' = "collect"
  /\ blob' = [exists |-> TRUE, bytes |-> <<>>]
  /\ UNCHANGED <<catalog, files, offset, manifest, error, run, history, handle, result, tamper, tamper2, torn, readers, optimizerVars>>

LoadModels ==
  /\ pc = "load"
  /\ models' = [s \in Stages |-> load_initializers(files[s])]
  /\ entries' = <<>>
  /\ idx' = 1
  /\ pc' = "collect"
  /\ UNCHANGED <<catalog, files, offset, blob, manifest, error, run, history, handle, result, tamper, tamper2, torn, readers, optimizerVars>>

(***************************************************************************)
(* main, lines 78-97: one iteration of the loop over TENSOR_ORDER.         *)
(***************************************************************************)
Collecting == pc = "collect" /\ idx <= Len(catalog)

\* place of the k-th catalog entry when the catalog is walked in the iteration order of the
\* dicts: first stage before second, then the place of the name in its dict
DictPlace(k) ==
  LET d == models[catalog[k].stage]
      found == {j \in 1..Len(d) : d[j].key = catalog[k].name}
  IN  <<IF catalog[k].stage = "stage1" THEN 1 ELSE 2,
        IF found = {} THEN Len(d) + 1 ELSE CHOOSE j \in found : TRUE,
        k>>

PlaceBefore(p, q) ==
  \/ p[1] < q[1]
  \/ p[1] = q[1] /\ p[2] < q[2]
  \/ p[1] = q[1] /\ p[2] = q[2] /\ p[3] < q[3]

\* line 78 iterating over the dicts of the models in place of TENSOR_ORDER
DescriptorAtByDict(i) ==
  catalog[CHOOSE k \in 1..Len(catalog) :
            Cardinality({j \in 1..Len(catalog) : PlaceBefore(DictPlace(j), DictPlace(k))}) = i - 1]

\* line 78: the i-th element of the loop over TENSOR_ORDER
DescriptorAt(i) == catalog[i]

Raise(err) ==
  /\ error' = err
  /\ pc' = "failed"
  /\ UNCHANGED <<catalog, files, models, idx, entries, offset, blob, manifest, run, history, handle, result, tamper, tamper2, torn, readers, optimizerVars>>

\* line 79 with the initializers of both models in one pool
PoolMerged(desc) == models.stage1 \o models.stage2

\* line 79
Pool(desc) == models[desc.stage]

\* line 80
Lookup(desc) == DictHas(Pool(desc), desc.name)

\* line 84 comparing the sizes of the two shapes
ShapeDiffersBySize(actual_shape, expected_shape) == Product(actual_shape) # Product(expected_shape)

\* line 84
ShapeDiffers(actual_shape, expected_shape) == actual_shape # expected_shape

\* lines 80-81 with the missing tensor skipped
MissingTensorSkipped ==
  /\ Collecting
  /\ ~Lookup(DescriptorAt(idx))
  /\ idx' = idx + 1
  /\ UNCHANGED <<catalog, files, models, pc, entries, offset, blob, manifest, error, run, history, handle, result, tamper, tamper2, torn, readers, optimizerVars>>

\* lines 80-81 with the error kept for a report at the end and the loop going on
MissingTensorRecorded ==
  /\ Collecting
  /\ LET desc == DescriptorAt(idx)
     IN  /\ ~Lookup(desc)
         /\ error' = [NoError EXCEPT !.kind = "MissingTensor", !.name = desc.name, !.stage = desc.stage]
  /\ idx' = idx + 1
  /\ UNCHANGED <<catalog, files, models, pc, entries, offset, blob, manifest, run, history, handle, result, tamper, tamper2, torn, readers, optimizerVars>>

MissingTensor ==
  /\ Collecting
  /\ LET desc == DescriptorAt(idx)
     IN  /\ ~Lookup(desc)
         /\ Raise([NoError EXCEPT !.kind = "MissingTensor", !.name = desc.name, !.stage = desc.stage])

ShapeMismatch ==
  /\ Collecting
  /\ LET desc == DescriptorAt(idx)
     IN  /\ Lookup(desc)
         /\ LET init == DictGet(Pool(desc), desc.name)
            IN  /\ ShapeDiffers(infer_shape(init), desc.shape)
                /\ Raise([NoError EXCEPT !.kind = "ShapeMismatch", !.name = desc.name,
                                         !.expected = desc.shape, !.actual = infer_shape(init)])

ArrayError ==
  /\ Collecting
  /\ LET desc == DescriptorAt(idx)
     IN  /\ Lookup(desc)
         /\ LET init == DictGet(Pool(desc), desc.name)
            IN  /\ ~ShapeDiffers(infer_shape(init), desc.shape)
                /\ ~ToArrayOk(init)
                /\ Raise([NoError EXCEPT !.kind = "ValueError", !.name = desc.name])

\* lines 88-97 with the byte count kept as the length
MakeEntryByteLen(desc, init) ==
  LET data == float32_bytes_from_initializer(init)
  IN  [name |-> desc.name, shape |-> infer_shape(init), len |-> Len(data),
       bytes |-> data, stage |-> desc.stage]

\* lines 88-97
MakeEntry(desc, init) ==
  LET data == float32_bytes_from_initializer(init)
  IN  [name |-> desc.name, shape |-> infer_shape(init), len |-> Len(data) \div 4,
       bytes |-> data, stage |-> desc.stage]

AppendEntry ==
  /\ Collecting
  /\ LET desc == DescriptorAt(idx)
     IN  /\ Lookup(desc)
         /\ LET init == DictGet(Pool(desc), desc.name)
            IN  /\ ~ShapeDiffers(infer_shape(init), desc.shape)
                /\ ToArrayOk(init)
                /\ entries' = Append(entries, MakeEntry(desc, init))
  /\ idx' = idx + 1
  /\ UNCHANGED <<catalog, files, models, pc, offset, blob, manifest, error, run, history, handle, result, tamper, tamper2, torn, readers, optimizerVars>>

(***************************************************************************)
(* main, lines 99-119: the blob file.                                      *)
(***************************************************************************)
\* line 99: open(BLOB_PATH, "wb") creates or truncates the file
OpenBlob ==
  /\ pc = "collect"
  /\ idx > Len(catalog)
  /\ blob' = [exists |-> TRUE, bytes |-> <<>>]
  /\ pc' = "header"
  /\ tamper' = 0
  /\ tamper2' = 0
  /\ torn' = FALSE
  /\ UNCHANGED <<catalog, files, models, idx, entries, offset, manifest, error, run, history, handle, result, readers, optimizerVars>>

\* big-endian struct.pack(">I", v)
PackU32BigEndian(v) == <<(v \div 16777216) % 256, (v \div 65536) % 256, (v \div 256) % 256, v % 256>>

\* lines 100-104 with the integers of the header packed big-endian
HeaderBytesBigEndian(count) ==
  MAGIC \o PackU32BigEndian(VERSION) \o PackU8(ENDIANNESS) \o PackU8(DTYPE_F32)
    \o PackU32BigEndian(count)

\* lines 100-104
HeaderBytes(count) ==
  MAGIC \o PackU32(VERSION) \o PackU8(ENDIANNESS) \o PackU8(DTYPE_F32) \o PackU32(count)

\* lines 100-106
WriteHeader ==
  /\ pc = "header"
  /\ blob' = [blob EXCEPT !.bytes = @ \o HeaderBytes(Len(entries))]
  /\ offset' = 0
  /\ idx' = 1
  /\ pc' = IF entries = <<>> THEN "manifest" ELSE "descriptors"
  /\ UNCHANGED <<catalog, files, models, entries, manifest, error, run, history, handle, result, tamper, tamper2, torn, readers, optimizerVars>>

\* lines 108-115 with the payload of the entry written right after its record
DescriptorBytesThenPayload(entry, off) ==
  LET name_bytes == Utf8Encode(entry.name)
  IN  PackU16(Len(name_bytes)) \o name_bytes \o PackU8(Len(entry.shape))
        \o Concat([d \in 1..Len(entry.shape) |-> PackU32(entry.shape[d])])
        \o PackU32(off) \o PackU32(entry.len) \o entry.bytes

\* lines 108-115 with struct.pack("<H", dim) in place of "<I"
DescriptorBytesShortDims(entry, off) ==
  LET name_bytes == Utf8Encode(entry.name)
  IN  PackU16(Len(name_bytes)) \o name_bytes \o PackU8(Len(entry.shape))
        \o Concat([d \in 1..Len(entry.shape) |-> PackU16(entry.shape[d])])
        \o PackU32(off) \o PackU32(entry.len)

\* lines 108-115: the descriptor record of one entry
DescriptorBytes(entry, off) ==
  LET name_bytes == Utf8Encode(entry.name)
  IN  PackU16(Len(name_bytes)) \o name_bytes \o PackU8(Len(entry.shape))
        \o Concat([d \in 1..Len(entry.shape) |-> PackU32(entry.shape[d])])
        \o PackU32(off) \o PackU32(entry.len)

\* the record with struct.pack("<H", offset) in place of "<I"
DescriptorFitsShortOffset(entry, off) ==
  /\ FitsU16(Len(Utf8Encode(entry.name)))
  /\ FitsU8(Len(entry.shape))
  /\ \A d \in 1..Len(entry.shape) : FitsU32(entry.shape[d])
  /\ FitsU16(off)
  /\ FitsU32(entry.len)

\* every struct.pack of the record accepts its value
DescriptorFits(entry, off) ==
  /\ FitsU16(Len(Utf8Encode(entry.name)))
  /\ FitsU8(Len(entry.shape))
  /\ \A d \in 1..Len(entry.shape) : FitsU32(entry.shape[d])
  /\ FitsU32(off)
  /\ FitsU32(entry.len)

\* line 116 with the element count in place of the byte count
NextOffsetByCount(off, entry) == off + entry.len

\* line 116 left out
NextOffsetKept(off, entry) == off

\* line 116 with = in place of +=
NextOffsetAssigned(off, entry) == Len(entry.bytes)

\* line 116
NextOffset(off, entry) == off + Len(entry.bytes)

\* lines 107-116: one iteration of the descriptor loop
WriteDescriptor ==
  /\ pc = "descriptors"
  /\ LET entry == entries[idx]
     IN  IF DescriptorFits(entry, offset)
         THEN /\ blob' = [blob EXCEPT !.bytes = @ \o DescriptorBytes(entry, offset)]
              /\ offset' = NextOffset(offset, entry)
              /\ idx' = IF idx = Len(entries) THEN 1 ELSE idx + 1
              /\ pc' = IF idx = Len(entries) THEN "payload" ELSE "descriptors"
              /\ error' = error
         ELSE /\ error' = [NoError EXCEPT !.kind = "struct.error", !.name = entry.name]
              /\ pc' = "failed"
              /\ UNCHANGED <<blob, offset, idx>>
  /\ UNCHANGED <<catalog, files, models, entries, manifest, run, history, handle, result, tamper, tamper2, torn, readers, optimizerVars>>

\* lines 118-119: one iteration of the payload loop
WritePayload ==
  /\ pc = "payload"
  /\ blob' = [blob EXCEPT !.bytes = @ \o entries[idx].bytes]
  /\ idx' = idx + 1
  /\ pc' = IF idx = Len(entries) THEN "manifest" ELSE "payload"
  /\ UNCHANGED <<catalog, files, models, entries, offset, manifest, error, run, history, handle, result, tamper, tamper2, torn, readers, optimizerVars>>

(***************************************************************************)
(* main, lines 99-119: the blob is written in place, one write call after  *)
(* the other.  A run that is stopped while it writes leaves the bytes of   *)
(* the calls it finished and the first bytes of the call it was in.        *)
(***************************************************************************)
\* the bytes the next write call of the run would add to the blob file
NextWrite ==
  IF pc = "header" THEN HeaderBytes(Len(entries))
  ELSE IF pc = "descriptors" THEN DescriptorBytes(entries[idx], offset)
  ELSE entries[idx].bytes

\* how many bytes of a write call of n bytes reach the file when the run stops in it
CutPoints(n) == {k \in 0..(n - 1) : k <= MaxCut \/ k >= n - MaxCut}

Interrupted ==
  /\ pc \in {"header", "descriptors", "payload"}
  /\ pc = "descriptors" => DescriptorFits(entries[idx], offset)
  /\ \E k \in CutPoints(Len(NextWrite)) :
       blob' = [blob EXCEPT !.bytes = @ \o SubSeq(NextWrite, 1, k)]
  /\ torn' = TRUE
  /\ error' = [NoError EXCEPT !.kind = "Interrupted"]
  /\ pc' = "failed"
  /\ UNCHANGED <<catalog, files, models, idx, entries, offset, manifest, run, history, handle, result, tamper, tamper2, readers, optimizerVars>>

(***************************************************************************)
(* main, lines 121-138: the manifest.                                      *)
(***************************************************************************)
\* lines 126-132 hashing the first len bytes of the payload
ManifestEntryShortHash(entry) ==
  [name |-> entry.name, shape |-> entry.shape, stage |-> entry.stage, len |-> entry.len,
   checksum |-> Sha256Hex(SubSeq(entry.bytes, 1, entry.len))]

\* lines 126-132 recording the byte count as len
ManifestEntryByteLen(entry) ==
  [name |-> entry.name, shape |-> entry.shape, stage |-> entry.stage, len |-> Len(entry.bytes),
   checksum |-> Sha256Hex(entry.bytes)]

ManifestEntry(entry) ==
  [name |-> entry.name, shape |-> entry.shape, stage |-> entry.stage, len |-> entry.len,
   checksum |-> Sha256Hex(entry.bytes)]

BuildManifest(es) ==
  [version |-> VERSION, dtype |-> "f32", tensor_count |-> Len(es),
   tensors |-> [k \in 1..Len(es) |-> ManifestEntry(es[k])]]

WriteManifest ==
  /\ pc = "manifest"
  /\ manifest' = [exists |-> TRUE, doc |-> BuildManifest(entries)]
  /\ pc' = "done"
  /\ history' = Append(history, [run |-> run, files |-> files, entries |-> entries,
                                 blob |-> blob.bytes, manifest |-> manifest'.doc])
  /\ UNCHANGED <<catalog, files, models, idx, entries, offset, blob, error, run, handle, result, tamper, tamper2, torn, readers, optimizerVars>>

Idle == pc \in {"done", "failed"}

(***************************************************************************)
(* The blob reader of spec.md section 4.5: open, tensor and verify.        *)
(***************************************************************************)
\* a uint32 read saturates at the largest integer the model represents
Huge == 2147483647

ReadU8(b, pos) == b[pos]

ReadU16(b, pos) == b[pos] + 256 * b[pos + 1]

ReadU32(b, pos) ==
  IF b[pos + 3] >= 128 THEN Huge
  ELSE b[pos] + 256 * b[pos + 1] + 65536 * b[pos + 2] + 16777216 * b[pos + 3]

HeaderSize == 14

\* magic, version, endianness and dtype are the ones the format defines
HeaderValid(b) ==
  /\ Len(b) >= HeaderSize
  /\ SubSeq(b, 1, 4) = MAGIC
  /\ ReadU32(b, 5) = VERSION
  /\ ReadU8(b, 9) = ENDIANNESS
  /\ ReadU8(b, 10) = DTYPE_F32

\* the descriptor record that starts at pos (bytes are counted from 1)
ParseDescriptor(b, pos) ==
  IF pos + 1 > Len(b) THEN [ok |-> FALSE]
  ELSE LET name_len == ReadU16(b, pos)
           dim_pos  == pos + 2 + name_len
       IN  IF dim_pos > Len(b) THEN [ok |-> FALSE]
           ELSE LET dim_count == ReadU8(b, dim_pos)
                    off_pos   == dim_pos + 1 + 4 * dim_count
                IN  IF off_pos + 7 > Len(b) THEN [ok |-> FALSE]
                    ELSE [ok |-> TRUE,
                          rec |-> [name_bytes |-> SubSeq(b, pos + 2, pos + 1 + name_len),
                                   dims |-> [d \in 1..dim_count |-> ReadU32(b, dim_pos + 1 + 4 * (d - 1))],
                                   offset |-> ReadU32(b, off_pos),
                                   length |-> ReadU32(b, off_pos + 4)],
                          next |-> off_pos + 8]

RECURSIVE ParseTable(_, _, _, _)
\* count descriptor records from pos on, appended to the table parsed so far
ParseTable(b, pos, count, table) ==
  IF count = 0 THEN [ok |-> TRUE, table |-> table, next |-> pos]
  ELSE LET d == ParseDescriptor(b, pos)
       IN  IF ~d.ok THEN [ok |-> FALSE, table |-> <<>>, next |-> pos]
           ELSE ParseTable(b, d.next, count - 1, Append(table, d.rec))

\* every slice [offset, offset + length*4) lies inside the payload section
SlicesInside(table, payload_len) ==
  \A k \in 1..Len(table) :
    /\ table[k].length <= payload_len \div 4
    /\ table[k].offset + 4 * table[k].length <= payload_len

Unopened == [state |-> "Unopened", buf |-> <<>>, count |-> 0, table |-> <<>>, payload_start |-> 0]

Invalid == [Unopened EXCEPT !.state = "Invalid"]

\* Unopened -> HeaderParsed
ParseHeaderStep(b) ==
  IF HeaderValid(b)
  THEN [Unopened EXCEPT !.state = "HeaderParsed", !.buf = b, !.count = ReadU32(b, 11)]
  ELSE Invalid

\* HeaderParsed -> DescriptorTableParsed
ParseTableStep(h) ==
  LET t == ParseTable(h.buf, HeaderSize + 1, h.count, <<>>)
  IN  IF t.ok
      THEN [h EXCEPT !.state = "DescriptorTableParsed", !.table = t.table, !.payload_start = t.next]
      ELSE Invalid

\* DescriptorTableParsed -> Ready
ReadyStep(h) ==
  IF SlicesInside(h.table, Len(h.buf) + 1 - h.payload_start)
  THEN [h EXCEPT !.state = "Ready"]
  ELSE Invalid

Advance(h) ==
  IF h.state = "HeaderParsed" THEN ParseTableStep(h)
  ELSE IF h.state = "DescriptorTableParsed" THEN ReadyStep(h)
  ELSE h

\* open(bytes)
open(b) == Advance(Advance(ParseHeaderStep(b)))

\* the view [offset, offset + length*4) of the payload section
Slice(h, rec) ==
  SubSeq(h.buf, h.payload_start + rec.offset, h.payload_start + rec.offset + 4 * rec.length - 1)

\* the first descriptor record with the given name bytes, or 0
Find(table, name_bytes) ==
  LET found == {k \in 1..Len(table) : table[k].name_bytes = name_bytes}
  IN  IF found = {} THEN 0 ELSE CHOOSE k \in found : \A j \in found : k <= j

\* tensor(handle, name) that looks the name up in whatever table the handle holds
tensorOfAnyState(h, name) ==
  LET k == Find(h.table, Utf8Encode(name))
  IN  IF k = 0
      THEN [op |-> "tensor", ok |-> FALSE, error |-> "UnknownTensor",
            name |-> name, shape |-> <<>>, bytes |-> <<>>, mismatches |-> {}]
      ELSE [op |-> "tensor", ok |-> TRUE, error |-> "none", name |-> name, shape |-> h.table[k].dims,
            bytes |-> IF SlicesInside(<<h.table[k]>>, Len(h.buf) + 1 - h.payload_start)
                      THEN Slice(h, h.table[k]) ELSE <<>>,
            mismatches |-> {}]

\* tensor(handle, name)
tensor(h, name) ==
  LET k == IF h.state = "Ready" THEN Find(h.table, Utf8Encode(name)) ELSE 0
  IN  IF k = 0
      THEN [op |-> "tensor", ok |-> FALSE,
            error |-> IF h.state = "Ready" THEN "UnknownTensor" ELSE "NotReady",
            name |-> name, shape |-> <<>>, bytes |-> <<>>, mismatches |-> {}]
      ELSE [op |-> "tensor", ok |-> TRUE, error |-> "none", name |-> name, shape |-> h.table[k].dims,
            bytes |-> Slice(h, h.table[k]), mismatches |-> {}]

\* the first tensor whose recomputed digest is not the recorded one: a
\* verification that stops at the first mismatch
MismatchesUpToFirst(h, doc) ==
  LET recorded == {<<Utf8Encode(doc.tensors[m].name), doc.tensors[m].checksum>> : m \in 1..Len(doc.tensors)}
      bad == {k \in 1..Len(h.table) : <<h.table[k].name_bytes, Sha256Hex(Slice(h, h.table[k]))>> \notin recorded}
  IN  {k \in bad : \A j \in bad : k <= j}

\* the tensors whose recomputed digest is not the one the manifest records
Mismatches(h, doc) ==
  LET recorded == {<<Utf8Encode(doc.tensors[m].name), doc.tensors[m].checksum>> : m \in 1..Len(doc.tensors)}
  IN  {k \in 1..Len(h.table) : <<h.table[k].name_bytes, Sha256Hex(Slice(h, h.table[k]))>> \notin recorded}

\* verify(handle, manifest)
verify(h, doc) ==
  LET bad == IF h.state = "Ready" THEN Mismatches(h, doc) ELSE {}
  IN  [op |-> "verify", ok |-> h.state = "Ready" /\ bad = {},
       error |-> IF h.state # "Ready" THEN "NotReady"
                 ELSE IF bad # {} THEN "ChecksumMismatch" ELSE "none",
       name |-> <<>>, shape |-> <<>>,
       bytes |-> <<>>, mismatches |-> {h.table[k].name_bytes : k \in bad}]

NoResult ==
  [op |-> "none", ok |-> FALSE, error |-> "none", name |-> <<>>, shape |-> <<>>, bytes |-> <<>>,
   mismatches |-> {}]

Readers == 1..NumReaders

ReaderInit ==
  /\ handle = Unopened
  /\ result = NoResult
  /\ tamper = 0
  /\ tamper2 = 0
  /\ torn = FALSE
  /\ readers = [r \in Readers |-> [handle |-> Unopened, result |-> NoResult]]

\* the names a caller asks for: the cataloged ones and one that no catalog has
AskedNames == {catalog[k].name : k \in 1..Len(catalog)} \cup {NameX}

ReaderParseHeader ==
  /\ Idle
  /\ blob.exists
  /\ handle.state = "Unopened"
  /\ handle' = ParseHeaderStep(blob.bytes)
  /\ UNCHANGED <<result, tamper, tamper2, torn, readers, optimizerVars>>
  /\ UNCHANGED writerVars

ReaderParseTable ==
  /\ handle.state = "HeaderParsed"
  /\ handle' = ParseTableStep(handle)
  /\ UNCHANGED <<result, tamper, tamper2, torn, readers, optimizerVars>>
  /\ UNCHANGED writerVars

ReaderReady ==
  /\ handle.state = "DescriptorTableParsed"
  /\ handle' = ReadyStep(handle)
  /\ UNCHANGED <<result, tamper, tamper2, torn, readers, optimizerVars>>
  /\ UNCHANGED writerVars

\* a caller goes on calling until a call has succeeded
MayCall == handle.state = "Ready" /\ ~result.ok

ReaderTensor ==
  /\ MayCall
  /\ \E name \in AskedNames : result' = tensor(handle, name)
  /\ UNCHANGED <<handle, tamper, tamper2, torn, readers, optimizerVars>>
  /\ UNCHANGED writerVars

\* a verification that gives the handle up when it finds a mismatch
ReaderVerifyPoisoning ==
  /\ MayCall
  /\ manifest.exists
  /\ result' = verify(handle, manifest.doc)
  /\ handle' = IF result'.ok THEN handle ELSE Invalid
  /\ UNCHANGED <<tamper, tamper2, torn, readers, optimizerVars>>
  /\ UNCHANGED writerVars

ReaderVerify ==
  /\ MayCall
  /\ manifest.exists
  /\ result' = verify(handle, manifest.doc)
  /\ UNCHANGED <<handle, tamper, tamper2, torn, readers, optimizerVars>>
  /\ UNCHANGED writerVars

\* a caller that does not wait for Ready: its first call, for the first
\* cataloged name or for a verification, is made on a handle in another state
ReaderEarlyCall ==
  /\ Idle
  /\ blob.exists
  /\ handle.state \in {"HeaderParsed", "DescriptorTableParsed", "Invalid"}
  /\ result = NoResult
  /\ \/ result' = tensor(handle, catalog[1].name)
     \/ manifest.exists /\ result' = verify(handle, manifest.doc)
  /\ UNCHANGED <<handle, tamper, tamper2, torn, readers, optimizerVars>>
  /\ UNCHANGED writerVars

(***************************************************************************)
(* One byte of the blob file is edited after the export: a byte of the     *)
(* payload section, or a byte of the magic, version, endianness or dtype   *)
(* field of the header.                                                    *)
(***************************************************************************)
TamperValues(old) == {(old + 1) % 256}

\* the header fields that open checks occupy the first ten bytes
CheckedHeaderBytes == 1..10

Tamper ==
  /\ Idle
  /\ blob.exists
  /\ tamper = 0
  /\ handle.state = "Unopened"
  /\ LET h == open(blob.bytes)
     IN  /\ h.state = "Ready"
         /\ \E pos \in CheckedHeaderBytes \cup (h.payload_start..Len(blob.bytes)) :
              \E new \in TamperValues(blob.bytes[pos]) :
                /\ blob' = [blob EXCEPT !.bytes[pos] = new]
                /\ tamper' = pos
  /\ UNCHANGED <<handle, result, tamper2, torn, readers, optimizerVars>>
  /\ UNCHANGED <<catalog, files, models, pc, idx, entries, offset, manifest, error, run, history>>

\* a second byte is edited: the first payload byte was edited, now the last one is
TamperAgain ==
  /\ Idle
  /\ blob.exists
  /\ tamper # 0
  /\ tamper2 = 0
  /\ handle.state = "Unopened"
  /\ LET h == open(blob.bytes)
         last == Len(blob.bytes)
     IN  /\ h.state = "Ready"
         /\ tamper = h.payload_start
         /\ tamper < last
         /\ \E new \in TamperValues(blob.bytes[last]) :
              /\ blob' = [blob EXCEPT !.bytes[last] = new]
              /\ tamper2' = last
  /\ UNCHANGED <<handle, result, tamper, torn, readers, optimizerVars>>
  /\ UNCHANGED <<catalog, files, models, pc, idx, entries, offset, manifest, error, run, history>>

(***************************************************************************)
(* The exporter is run again, over the same catalog and over model files   *)
(* that may have changed; the files of the earlier run are still on disk  *)
(* and are read with a new handle.  An edited blob file is only read.      *)
(***************************************************************************)
Rerun ==
  /\ Idle
  /\ run < MaxRuns
  /\ tamper = 0
  /\ \E input \in Inputs : input.catalog = catalog /\ files' = input.files
  /\ models' = NoModels
  /\ entries' = <<>>
  /\ idx' = 1
  /\ offset' = 0
  /\ error' = NoError
  /\ pc' = "load"
  /\ run' = run + 1
  /\ handle' = Unopened
  /\ result' = NoResult
  /\ UNCHANGED <<catalog, blob, manifest, history, tamper, tamper2, torn, readers, optimizerVars>>

(***************************************************************************)
(* Several readers on one blob file.  Each has a handle of its own, and    *)
(* the steps of their open, tensor and verify calls interleave.            *)
(***************************************************************************)
SharedParseHeader(r) ==
  /\ Idle
  /\ blob.exists
  /\ readers[r].handle.state = "Unopened"
  /\ readers' = [readers EXCEPT ![r].handle = ParseHeaderStep(blob.bytes)]
  /\ UNCHANGED <<writerVars, readerVars, optimizerVars>>

SharedParseTable(r) ==
  /\ readers[r].handle.state = "HeaderParsed"
  /\ readers' = [readers EXCEPT ![r].handle = ParseTableStep(@)]
  /\ UNCHANGED <<writerVars, readerVars, optimizerVars>>

SharedReady(r) ==
  /\ readers[r].handle.state = "DescriptorTableParsed"
  /\ readers' = [readers EXCEPT ![r].handle = ReadyStep(@)]
  /\ UNCHANGED <<writerVars, readerVars, optimizerVars>>

SharedMayCall(r) == readers[r].handle.state = "Ready" /\ ~readers[r].result.ok

\* a tensor call that returns its bytes in a buffer that all readers share
SharedTensorOneBuffer(r) ==
  /\ SharedMayCall(r)
  /\ \E name \in AskedNames :
       LET new == tensor(readers[r].handle, name)
       IN  readers' = [q \in Readers |->
                        IF q = r THEN [readers[q] EXCEPT !.result = new]
                        ELSE IF new.ok /\ readers[q].result.op = "tensor" /\ readers[q].result.ok
                        THEN [readers[q] EXCEPT !.result.bytes = new.bytes]
                        ELSE readers[q]]
  /\ UNCHANGED <<writerVars, readerVars, optimizerVars>>

SharedTensor(r) ==
  /\ SharedMayCall(r)
  /\ \E name \in AskedNames : readers' = [readers EXCEPT ![r].result = tensor(readers[r].handle, name)]
  /\ UNCHANGED <<writerVars, readerVars, optimizerVars>>

SharedVerify(r) ==
  /\ SharedMayCall(r)
  /\ manifest.exists
  /\ readers' = [readers EXCEPT ![r].result = verify(readers[r].handle, manifest.doc)]
  /\ UNCHANGED <<writerVars, readerVars, optimizerVars>>

(***************************************************************************)
(* test_automation/auto_tune.py: VSTOptimizer and main.                    *)
(*                                                                         *)
(* A score is a Python float: minus infinity, not-a-number, or a finite    *)
(* value, here one of the ranks 0..MaxScore.  A parameter value is a       *)
(* number of steps of 0.05.                                                *)
(***************************************************************************)
NegInf == [kind |-> "-inf", v |-> 0]

NaN == [kind |-> "nan", v |-> 0]

Finite(n) == [kind |-> "finite", v |-> n]

\* a > b on floats: false when either side is not a number
Greater(a, b) ==
  /\ a.kind = "finite"
  /\ \/ b.kind = "-inf"
     \/ b.kind = "finite" /\ a.v > b.v

\* what calculate_composite_score may return
Scores == {NegInf, NaN} \cup {Finite(n) : n \in 0..MaxScore}

\* lines 288-297: the highest step of every parameter of the search space
SearchSpace ==
  [noise_reduction |-> 20, noise_mode |-> 1, reverb_reduction |-> 20, proximity |-> 10,
   clarity |-> 20, de_esser |-> 14, leveler |-> 16, breath_control |-> 10]

\* lines 288-297: the params dict of a trial whose sampler drew step k everywhere
Suggest(k) == [key \in DOMAIN SearchSpace |-> Min(k, SearchSpace[key])]

Suggestions == {Suggest(k) : k \in 0..MaxStep}

None == [isNone |-> TRUE, dict |-> Suggest(0)]

Dict(params) == [isNone |-> FALSE, dict |-> params]

NothingWritten == [best_trials |-> {}, study_csv |-> FALSE, best_parameters |-> None]

\* lines 115-117, and main before it has parsed its arguments
OptimizerInit ==
  /\ n_trials = 0
  /\ study = <<>>
  /\ trial_count = 0
  /\ best_score = NegInf
  /\ best_params = None
  /\ written = NothingWritten
  /\ returned = None
  /\ exit_status = 0
  /\ tunePc = "main"

\* main, lines 373-407, VSTOptimizer.__init__, and optimize up to the creation of the study
CreateOptimizer ==
  /\ tunePc = "main"
  /\ \E n \in 0..MaxTrials : n_trials' = n
  /\ study' = <<>>
  /\ best_score' = NegInf
  /\ best_params' = None
  /\ trial_count' = 0
  /\ tunePc' = "optimize"
  /\ UNCHANGED <<written, returned, exit_status>>
  /\ UNCHANGED <<writerVars, readerVars, readers>>

\* study.optimize calls objective once more
Calling == tunePc = "optimize" /\ Len(study) < n_trials

\* line 312: the name of the file of the best audio
BestTrialFile(count, score) == [trial |-> count, score |-> score]

\* objective, lines 282-320: both calls succeed and the score is returned
ObjectiveReturns(params, score) ==
  /\ Calling
  /\ trial_count' = trial_count + 1
  /\ IF Greater(score, best_score)
       THEN /\ best_score' = score
            /\ best_params' = Dict(params)
            /\ written' = [written EXCEPT !.best_trials = @ \cup {BestTrialFile(trial_count', score)}]
       ELSE UNCHANGED <<best_score, best_params, written>>
  /\ study' = Append(study, [params |-> params, value |-> score])
  /\ UNCHANGED <<n_trials, returned, exit_status, tunePc>>
  /\ UNCHANGED <<writerVars, readerVars, readers>>

\* objective, lines 299-304 and 322-324: process_audio or calculate_composite_score raises
ObjectiveRaises(params) ==
  /\ Calling
  /\ trial_count' = trial_count + 1
  /\ study' = Append(study, [params |-> params, value |-> NegInf])
  /\ UNCHANGED <<best_score, best_params, written>>
  /\ UNCHANGED <<n_trials, returned, exit_status, tunePc>>
  /\ UNCHANGED <<writerVars, readerVars, readers>>

\* objective, lines 307-318 and 322-324: the score is the best so far, and sf.write or a
\* print after it raises; the file of the best audio may or may not have been written
ObjectiveRaisesSaving(params, score, saved) ==
  /\ Calling
  /\ trial_count' = trial_count + 1
  /\ Greater(score, best_score)
  /\ best_score' = score
  /\ best_params' = Dict(params)
  /\ written' = IF saved
                  THEN [written EXCEPT !.best_trials = @ \cup {BestTrialFile(trial_count', score)}]
                  ELSE written
  /\ study' = Append(study, [params |-> params, value |-> NegInf])
  /\ UNCHANGED <<n_trials, returned, exit_status, tunePc>>
  /\ UNCHANGED <<writerVars, readerVars, readers>>

\* optimize, lines 341-370, after the last trial
OptimizeReturns ==
  /\ tunePc = "optimize"
  /\ Len(study) = n_trials
  /\ returned' = IF best_params = None \/ best_score = NegInf THEN None ELSE best_params
  /\ written' = [written EXCEPT !.study_csv = TRUE]
  /\ tunePc' = "returned"
  /\ UNCHANGED <<n_trials, study, trial_count, best_score, best_params, exit_status>>
  /\ UNCHANGED <<writerVars, readerVars, readers>>

\* main, lines 413-418
MainSaves ==
  /\ tunePc = "returned"
  /\ returned # None
  /\ written' = [written EXCEPT !.best_parameters = returned]
  /\ exit_status' = 0
  /\ tunePc' = "done"
  /\ UNCHANGED <<n_trials, study, trial_count, best_score, best_params, returned>>
  /\ UNCHANGED <<writerVars, readerVars, readers>>

\* main, lines 419-422
MainExits ==
  /\ tunePc = "returned"
  /\ returned = None
  /\ exit_status' = 1
  /\ tunePc' = "done"
  /\ UNCHANGED <<n_trials, study, trial_count, best_score, best_params, written, returned>>
  /\ UNCHANGED <<writerVars, readerVars, readers>>

Init == WriterInit /\ ReaderInit /\ OptimizerInit

Next ==
  \/ LoadModels
  \/ MissingTensor
  \/ ShapeMismatch
  \/ ArrayError
  \/ AppendEntry
  \/ OpenBlob
  \/ WriteHeader
  \/ WriteDescriptor
  \/ WritePayload
  \/ Interrupted
  \/ WriteManifest
  \/ Rerun
  \/ ReaderParseHeader
  \/ ReaderParseTable
  \/ ReaderReady
  \/ ReaderTensor
  \/ ReaderVerify
  \/ ReaderEarlyCall
  \/ Tamper
  \/ TamperAgain

vars == <<writerVars, readerVars, readers, optimizerVars>>

Spec == Init /\ [][Next]_vars

\* one export, then the readers
NextReaders ==
  \/ LoadModels
  \/ MissingTensor
  \/ ShapeMismatch
  \/ ArrayError
  \/ AppendEntry
  \/ OpenBlob
  \/ WriteHeader
  \/ WriteDescriptor
  \/ WritePayload
  \/ WriteManifest
  \/ \E r \in Readers : SharedParseHeader(r)
  \/ \E r \in Readers : SharedParseTable(r)
  \/ \E r \in Readers : SharedReady(r)
  \/ \E r \in Readers : SharedTensor(r)
  \/ \E r \in Readers : SharedVerify(r)

SpecReaders == Init /\ [][NextReaders]_vars

\* one run of auto_tune.py
NextOptimizer ==
  \/ CreateOptimizer
  \/ \E params \in Suggestions : ObjectiveRaises(params)
  \/ \E params \in Suggestions, score \in Scores : ObjectiveReturns(params, score)
  \/ \E params \in Suggestions, score \in Scores, saved \in BOOLEAN :
       ObjectiveRaisesSaving(params, score, saved)
  \/ OptimizeReturns
  \/ MainSaves
  \/ MainExits

SpecOptimizer == Init /\ [][NextOptimizer]_vars

(***************************************************************************)
(* Vocabulary of the properties.                                           *)
(***************************************************************************)
\* the record of the latest completed run: its files are the ones on disk
Last == history[Len(history)]

\* an export has just completed: the files on disk are the ones it wrote
Produced == pc = "done" /\ tamper = 0 /\ handle.state = "Unopened"

\* the descriptor table read back from the bytes of a blob
DescriptorTable(b) == ParseTable(b, HeaderSize + 1, ReadU32(b, 11), <<>>)

\* position of a cataloged name in the catalog
CatalogIndex(name) == CHOOSE k \in 1..Len(catalog) : catalog[k].name = name

Cataloged(name) == \E k \in 1..Len(catalog) : catalog[k].name = name

\* what the adapter returns for each catalog entry, from the given model files
AdapterOutput(fs) ==
  [k \in 1..Len(catalog) |-> DictGet(load_initializers(fs[catalog[k].stage]), catalog[k].name)]

\* the bytes the adapter produces for the k-th catalog entry from the given model files
AdapterBytes(fs, k) == float32_bytes_from_initializer(AdapterOutput(fs)[k])

\* the running export has left no file and no record
RunWroteNothing ==
  /\ \A r \in 1..Len(history) : history[r].run # run
  /\ run = 1 => (~blob.exists /\ ~manifest.exists)

\* the export is past the loop over the catalog: it is writing or has written
Writing == pc \in {"header", "descriptors", "payload", "manifest", "done"}

\* the k-th cataloged tensor is in the source of its stage
Present(k) ==
  \E j \in 1..Len(models[catalog[k].stage]) : models[catalog[k].stage][j].key = catalog[k].name

\* the shape the source of its stage has for the k-th cataloged tensor
SourceShape(k) == DictGet(models[catalog[k].stage], catalog[k].name).dims

RECURSIVE PayloadBytes(_, _)
\* number of payload bytes of the first k entries
PayloadBytes(es, k) == IF k = 0 THEN 0 ELSE PayloadBytes(es, k - 1) + Len(es[k].bytes)

\* the manifest describes the blob: same count, version, entries, and the digests of the slices
Agree(b, doc) ==
  LET t == DescriptorTable(b)
  IN  /\ t.ok
      /\ doc.tensor_count = ReadU32(b, 11)
      /\ doc.version = ReadU32(b, 5)
      /\ Len(doc.tensors) = Len(t.table)
      /\ \A k \in 1..Len(t.table) :
           /\ Utf8Encode(doc.tensors[k].name) = t.table[k].name_bytes
           /\ doc.tensors[k].shape = t.table[k].dims
           /\ doc.tensors[k].len = t.table[k].length
           /\ doc.tensors[k].checksum =
                Sha256Hex(SubSeq(b, t.next + t.table[k].offset,
                                 t.next + t.table[k].offset + 4 * t.table[k].length - 1))

OffsetContiguity ==
  Produced =>
    LET t == DescriptorTable(blob.bytes)
    IN  /\ t.ok
        /\ Len(t.table) = Len(catalog)
        /\ t.table[1].offset = 0
        /\ \A i \in 1..(Len(t.table) - 1) :
             t.table[i + 1].offset = t.table[i].offset + t.table[i].length * 4

\* an export of the three-tensor catalog is complete
OffsetContiguityReached ==
  /\ Produced
  /\ catalog = MixedOrder
  /\ Len(DescriptorTable(blob.bytes).table) = 3

\* the state part and the step part of shape enforcement
ShapeChecked ==
  /\ (pc # "load" /\ \E k \in 1..Len(catalog) : Present(k) /\ SourceShape(k) # catalog[k].shape)
       => (pc \in {"collect", "failed"} /\ RunWroteNothing)
  /\ Writing =>
       /\ Len(entries) = Len(catalog)
       /\ \A k \in 1..Len(catalog) :
            Present(k) /\ SourceShape(k) = catalog[k].shape /\ entries[k].shape = catalog[k].shape
  /\ (pc = "failed" /\ error.kind = "ShapeMismatch") =>
       /\ error.name = catalog[idx].name
       /\ error.expected = catalog[idx].shape
       /\ error.actual = SourceShape(idx)
       /\ error.actual # error.expected

ShapeStep ==
  (Collecting /\ Present(idx) /\ SourceShape(idx) # catalog[idx].shape)
    => /\ pc' = "failed"
       /\ error' = [kind |-> "ShapeMismatch", name |-> catalog[idx].name, stage |-> "",
                    expected |-> catalog[idx].shape, actual |-> SourceShape(idx)]
       /\ blob' = blob
       /\ manifest' = manifest

(***************************************************************************)
(* C3  Shape enforcement: when the source holds, for the cataloged tensor  *)
(* the loop has reached, a shape other than the expected one (another      *)
(* dimension or another rank), the export fails there with ShapeMismatch   *)
(* carrying the name, the expected and the actual shape; an export over a  *)
(* source with such a tensor never writes a file, and an export that       *)
(* writes has found every shape equal to the expected one beforehand.      *)
(***************************************************************************)
ShapeEnforcement == [](ShapeChecked) /\ [][ShapeStep]_vars

\* an export failed on a tensor of the expected size and another rank
ShapeEnforcementReached ==
  /\ pc = "failed"
  /\ error.kind = "ShapeMismatch"
  /\ Len(error.actual) # Len(error.expected)
  /\ Product(error.actual) = Product(error.expected)
  /\ RunWroteNothing

\* the state part and the step part of the abort on a missing tensor
MissingChecked ==
  /\ (pc # "load" /\ \E k \in 1..Len(catalog) : ~Present(k))
       => (pc \in {"collect", "failed"} /\ RunWroteNothing)
  /\ (pc = "failed" /\ error.kind = "MissingTensor") =>
       /\ error.name = catalog[idx].name
       /\ error.stage = catalog[idx].stage
       /\ ~Present(idx)
       /\ \A k \in 1..(idx - 1) : Present(k)
       /\ Len(entries) = idx - 1

MissingStep ==
  (Collecting /\ ~Present(idx))
    => /\ pc' = "failed"
       /\ error' = [kind |-> "MissingTensor", name |-> catalog[idx].name, stage |-> catalog[idx].stage,
                    expected |-> <<>>, actual |-> <<>>]
       /\ blob' = blob
       /\ manifest' = manifest

(***************************************************************************)
(* C4  Missing tensor: when the cataloged name the loop has reached is     *)
(* absent from the source of its stage, the export fails there with        *)
(* MissingTensor naming the tensor and its stage; every descriptor before  *)
(* it was present, and an export over a source that lacks a cataloged name *)
(* writes neither a blob nor a manifest.                                   *)
(***************************************************************************)
MissingAborts == [](MissingChecked) /\ [][MissingStep]_vars

\* an export failed on a name that only the other stage's source has
MissingAbortsReached ==
  /\ pc = "failed"
  /\ error.kind = "MissingTensor"
  /\ idx > 1
  /\ \E s \in Stages : s # error.stage /\ error.name \in DictKeys(models[s])
  /\ RunWroteNothing

(***************************************************************************)
(* C5  Checksum fidelity: verify, run on the blob and the manifest of one  *)
(* export, reports no mismatch when the blob is unmodified, and after one  *)
(* byte inside the payload region of a tensor was changed it reports       *)
(* ChecksumMismatch for exactly that tensor.                               *)
(***************************************************************************)
ChecksumFidelity ==
  (result.op = "verify" /\ result.error # "NotReady" /\ tamper2 = 0) =>
    IF tamper = 0
    THEN result.ok /\ result.mismatches = {}
    ELSE LET es == Last.entries
             before == Len(Last.blob) - PayloadBytes(es, Len(es))
         IN  /\ ~result.ok
             /\ \E k \in 1..Len(es) :
                  /\ before + PayloadBytes(es, k - 1) < tamper
                  /\ tamper <= before + PayloadBytes(es, k)
                  /\ result.mismatches = {Utf8Encode(es[k].name)}

\* verify has reported the one tensor of three whose payload was changed
ChecksumFidelityReached ==
  /\ result.op = "verify"
  /\ tamper # 0
  /\ catalog = MixedOrder
  /\ result.mismatches = {Utf8Encode(NameE)}

(***************************************************************************)
(* C6  Determinism: a completed export produces the blob bytes and the     *)
(* manifest that every earlier completed export over the same catalog      *)
(* produced for which the adapter returned the same tensors, whatever the  *)
(* order of the initializers in the model files.                           *)
(***************************************************************************)
Determinism ==
  Produced =>
    \A r \in 1..Len(history) :
      AdapterOutput(history[r].files) = AdapterOutput(files)
        => /\ history[r].blob = blob.bytes
           /\ history[r].manifest = manifest.doc

\* two exports completed over model files that list the same initializers in another order
DeterminismReached ==
  /\ Produced
  /\ Len(history) = 2
  /\ history[1].files # files
  /\ \E s \in Stages : load_initializers(history[1].files[s]) # models[s]
  /\ AdapterOutput(history[1].files) = AdapterOutput(files)

(***************************************************************************)
(* C7  Manifest/blob agreement: after a completed export the manifest on   *)
(* disk has one entry per descriptor record of the blob on disk, in the    *)
(* same order and with the same name, shape and element count, each        *)
(* checksum is the digest of the bytes of that tensor's payload slice, and *)
(* tensor_count and version are those of the blob header.                  *)
(***************************************************************************)
ManifestAgrees ==
  Produced =>
    /\ blob.exists
    /\ manifest.exists
    /\ Agree(blob.bytes, manifest.doc)

\* the export of the two-tensor catalog is complete
ManifestAgreesReached ==
  /\ Produced
  /\ catalog = ExampleOrder
  /\ manifest.doc.tensor_count = 2
  /\ Len(manifest.doc.tensors) = 2

(***************************************************************************)
(* C8  Non-overlap: in the descriptor table of the blob a completed export *)
(* produced, the byte ranges [offset, offset + element_count*4) of two     *)
(* distinct descriptors are disjoint and the offsets increase strictly in  *)
(* table order.                                                            *)
(***************************************************************************)
NonOverlap ==
  Produced =>
    LET t == DescriptorTable(blob.bytes)
    IN  /\ t.ok
        /\ Len(t.table) = Len(catalog)
        /\ \A i, j \in 1..Len(t.table) :
             i < j =>
               /\ t.table[i].offset < t.table[j].offset
               /\ \/ t.table[i].offset + 4 * t.table[i].length <= t.table[j].offset
                  \/ t.table[j].offset + 4 * t.table[j].length <= t.table[i].offset

\* an export of the twenty-tensor catalog is complete
NonOverlapReached ==
  /\ Produced
  /\ catalog = ScaledOrder
  /\ Len(DescriptorTable(blob.bytes).table) = Len(TENSOR_ORDER)

(***************************************************************************)
(* C9  Layout order: the blob a completed export produced is the 14-byte   *)
(* header (magic "DTLN", version, endianness 0, dtype 0, tensor_count),    *)
(* then one descriptor record per catalog entry in catalog order, then     *)
(* nothing but the payload bytes of the tensors concatenated in catalog    *)
(* order.                                                                  *)
(***************************************************************************)
LayoutOrder ==
  Produced =>
    LET b == blob.bytes
        t == DescriptorTable(b)
    IN  /\ SubSeq(b, 1, 4) = <<68, 84, 76, 78>>
        /\ ReadU32(b, 5) = VERSION
        /\ ReadU8(b, 9) = 0
        /\ ReadU8(b, 10) = 0
        /\ ReadU32(b, 11) = Len(catalog)
        /\ t.ok
        /\ Len(t.table) = Len(catalog)
        /\ \A i \in 1..Len(catalog) :
             /\ t.table[i].name_bytes = Utf8Encode(catalog[i].name)
             /\ t.table[i].dims = catalog[i].shape
             /\ 4 * t.table[i].length = Len(AdapterBytes(files, i))
        /\ SubSeq(b, t.next, Len(b)) = Concat([i \in 1..Len(catalog) |-> AdapterBytes(files, i)])

\* an export over both stages is complete and its blob is on disk
LayoutOrderReached ==
  /\ Produced
  /\ catalog = MixedOrder
  /\ blob.exists
  /\ Len(blob.bytes) > HeaderSize

(***************************************************************************)
(* C10  Tensor count: the tensor_count of the header of the blob file, at  *)
(* every moment the header is on disk, is the number of catalog entries;   *)
(* after a completed export so are the number of descriptor records, the   *)
(* manifest's tensor_count and the number of manifest entries; the count   *)
(* is 20 for the catalog with the entries of TENSOR_ORDER.                 *)
(***************************************************************************)
TensorCount ==
  /\ (blob.exists /\ Len(blob.bytes) >= HeaderSize) => ReadU32(blob.bytes, 11) = Len(catalog)
  /\ Produced =>
       /\ ReadU32(blob.bytes, 11) = Len(catalog)
       /\ DescriptorTable(blob.bytes).ok
       /\ Len(DescriptorTable(blob.bytes).table) = Len(catalog)
       /\ manifest.doc.tensor_count = Len(catalog)
       /\ Len(manifest.doc.tensors) = Len(catalog)
       /\ catalog = ScaledOrder => ReadU32(blob.bytes, 11) = 20

\* the blob of the twenty-tensor catalog is on disk
TensorCountReached ==
  /\ Produced
  /\ catalog = ScaledOrder
  /\ ReadU32(blob.bytes, 11) = 20
  /\ manifest.doc.tensor_count = 20

\* the blob file holds exactly the bytes the latest completed export wrote
Intact == history # <<>> /\ blob.exists /\ blob.bytes = Last.blob

\* one of the four checked header fields of the bytes is not the one of the format
HeaderFieldWrong(b) ==
  \/ SubSeq(b, 1, 4) # <<68, 84, 76, 78>>
  \/ ReadU32(b, 5) # 1
  \/ b[9] # 0
  \/ b[10] # 0

(***************************************************************************)
(* C11  Header validation: a handle opened on a blob file whose magic is   *)
(* not "DTLN", whose version is not 1, whose endianness byte is not 0 or   *)
(* whose dtype byte is not 0 is Invalid right after the header step, and   *)
(* a handle opened on the bytes a completed export wrote is never Invalid. *)
(***************************************************************************)
HeaderValidation ==
  handle.state # "Unopened" =>
    /\ (Len(blob.bytes) >= 10 /\ HeaderFieldWrong(blob.bytes)) => handle.state = "Invalid"
    /\ Intact => handle.state # "Invalid"

\* open has refused a blob whose version field was edited
HeaderValidationReached ==
  /\ handle.state = "Invalid"
  /\ tamper \in 5..8
  /\ SubSeq(blob.bytes, 1, 4) = MAGIC
  /\ ReadU32(blob.bytes, 5) # VERSION

\* the moves of a handle: each parse step goes one state forward or to Invalid
HandleMoves ==
  {<<"Unopened", "HeaderParsed">>, <<"HeaderParsed", "DescriptorTableParsed">>,
   <<"DescriptorTableParsed", "Ready">>,
   <<"Unopened", "Invalid">>, <<"HeaderParsed", "Invalid">>, <<"DescriptorTableParsed", "Invalid">>}

\* a step of one handle (a new export discards the handle and a new one is made)
HandleStep ==
  (run' = run /\ handle' # handle) => <<handle.state, handle'.state>> \in HandleMoves

\* a call has returned data only on a Ready handle
DataOnlyWhenReady ==
  (result.ok \/ result.bytes # <<>> \/ result.shape # <<>>) => handle.state = "Ready"

(***************************************************************************)
(* C12  Reader state machine: a handle moves only Unopened -> HeaderParsed *)
(* -> DescriptorTableParsed -> Ready, a failing parse step moves it to     *)
(* Invalid, which it never leaves, and tensor and verify return data only  *)
(* on a Ready handle.                                                      *)
(***************************************************************************)
ReaderStateMachine == [](DataOnlyWhenReady) /\ [][HandleStep]_vars

\* a call made before the handle was Ready returned nothing, and the handle is Ready now
ReaderStateMachineReached ==
  /\ handle.state = "Ready"
  /\ Intact
  /\ result.op = "tensor"
  /\ result.name = catalog[1].name
  /\ ~result.ok

\* the tensors of the latest export whose payload bytes in the blob file are
\* not the ones the export wrote
Corrupted ==
  LET es == Last.entries
      before == Len(Last.blob) - PayloadBytes(es, Len(es))
  IN  {k \in 1..Len(es) :
         SubSeq(blob.bytes, before + PayloadBytes(es, k - 1) + 1, before + PayloadBytes(es, k))
           # es[k].bytes}

(***************************************************************************)
(* C13  Verification completeness: verify on a Ready handle reports        *)
(* exactly the tensors whose payload bytes differ from the ones the        *)
(* manifest's digests were taken of, all of them and not only the first,   *)
(* and succeeds exactly when there is none.                                *)
(***************************************************************************)
VerifyCompleteness ==
  (result.op = "verify" /\ result.error # "NotReady") =>
    /\ result.mismatches = {Utf8Encode(Last.entries[k].name) : k \in Corrupted}
    /\ result.ok <=> Corrupted = {}

\* verify has reported both the first and the last tensor of a blob edited twice
VerifyCompletenessReached ==
  /\ result.op = "verify"
  /\ tamper2 # 0
  /\ Len(catalog) > 2
  /\ result.mismatches = {Utf8Encode(catalog[1].name), Utf8Encode(catalog[Len(catalog)].name)}

\* a call on the handle has failed with UnknownTensor or with ChecksumMismatch
FailedLocally == result.error \in {"UnknownTensor", "ChecksumMismatch"}

\* the handle is the one open made of the blob file
StillReady == handle.state = "Ready" /\ handle = open(blob.bytes)

\* the step after a local failure: the handle is kept, and a tensor call for
\* a cataloged name whose payload was not edited returns the exported bytes
AfterFailureStep ==
  (FailedLocally /\ run' = run) =>
    /\ handle' = handle
    /\ (result' # result /\ result'.op = "tensor" /\ Cataloged(result'.name)
          /\ CatalogIndex(result'.name) \notin Corrupted) =>
         /\ result'.ok
         /\ result'.bytes = AdapterBytes(Last.files, CatalogIndex(result'.name))

(***************************************************************************)
(* C14  Local failures keep the handle usable: after tensor has failed     *)
(* with UnknownTensor, or verify has reported ChecksumMismatch, the handle *)
(* is still Ready and unchanged, and the next tensor call for a present,   *)
(* uncorrupted name returns that tensor's bytes.                           *)
(***************************************************************************)
HandleUsableAfterFailure == [](FailedLocally => StillReady) /\ [][AfterFailureStep]_vars

\* verify has reported a mismatch, the handle is Ready, and a tensor call can follow
HandleUsableAfterFailureReached ==
  /\ result.error = "ChecksumMismatch"
  /\ StillReady
  /\ Corrupted # {}
  /\ \E k \in 1..Len(catalog) : k \notin Corrupted
  /\ ENABLED ReaderTensor

\* the bytes a run that has collected these entries writes to the blob file
CompleteBlob(es) ==
  HeaderBytes(Len(es))
    \o Concat([k \in 1..Len(es) |-> DescriptorBytes(es[k], PayloadBytes(es, k - 1))])
    \o Concat([k \in 1..Len(es) |-> es[k].bytes])

\* the blob file is shorter than the file the stopped run was writing
StrictPrefix == Len(blob.bytes) < Len(CompleteBlob(entries))

(***************************************************************************)
(* C15  Partial output is never valid: the blob file an export left when   *)
(* it stopped before writing all bytes is shorter than the complete file,  *)
(* open refuses it, and no handle on it is Ready or returns data.          *)
(***************************************************************************)
PartialNeverValid ==
  torn =>
    /\ error.kind = "Interrupted" => StrictPrefix
    /\ open(blob.bytes).state = "Invalid"
    /\ handle.state # "Ready"
    /\ ~result.ok

\* the reader has refused a file that ends inside the payload section
PartialNeverValidReached ==
  /\ torn
  /\ error.kind = "Interrupted"
  /\ handle.state = "Invalid"
  /\ Advance(ParseHeaderStep(blob.bytes)).state = "DescriptorTableParsed"
  /\ Len(blob.bytes) = Len(CompleteBlob(entries)) - 1

\* header and descriptor table of the example: count 2; "a", dims 2 and 2,
\* offset 0, 4 elements; "b", dim 3, offset 16, 3 elements
ExampleHead ==
  <<68, 84, 76, 78,  1, 0, 0, 0,  0,  0,  2, 0, 0, 0,
    1, 0,  97,  2,  2, 0, 0, 0,  2, 0, 0, 0,  0, 0, 0, 0,  4, 0, 0, 0,
    1, 0,  98,  1,  3, 0, 0, 0,  16, 0, 0, 0,  3, 0, 0, 0>>

(***************************************************************************)
(* C16  Example scenario: the export of the catalog                        *)
(* [("a",(2,2),"s1"), ("b",(3,),"s1")] writes tensor_count 2, "a" at       *)
(* offset 0 with element count 4, "b" at offset 16 with element count 3,   *)
(* a payload of 28 bytes, and a manifest of two entries whose digests are  *)
(* those of the 16-byte and of the 12-byte slice.                          *)
(***************************************************************************)
ExampleScenario ==
  (Produced /\ catalog = ExampleOrder) =>
    /\ SubSeq(blob.bytes, 1, Len(ExampleHead)) = ExampleHead
    /\ Len(blob.bytes) = Len(ExampleHead) + 28
    /\ manifest.doc.tensor_count = 2
    /\ Len(manifest.doc.tensors) = 2
    /\ manifest.doc.tensors[1].name = NameA
    /\ manifest.doc.tensors[1].checksum = Sha256Hex(SubSeq(blob.bytes, 51, 66))
    /\ manifest.doc.tensors[2].name = NameB
    /\ manifest.doc.tensors[2].checksum = Sha256Hex(SubSeq(blob.bytes, 67, 78))

\* the example has been exported, from a source that holds the two tensors in the other order
ExampleScenarioReached ==
  /\ Produced
  /\ catalog = ExampleOrder
  /\ files.stage1 = <<TB, TA>>
  /\ Len(blob.bytes) = 78

\* no two entries of one stage share a name, and every expected shape is a
\* non-empty sequence of positive integers
WellFormed(order) ==
  /\ \A i, j \in 1..Len(order) :
       (i # j /\ order[i].stage = order[j].stage) => order[i].name # order[j].name
  /\ \A k \in 1..Len(order) :
       /\ order[k].shape # <<>>
       /\ \A d \in 1..Len(order[k].shape) : order[k].shape[d] \in Nat \ {0}

(***************************************************************************)
(* C17  Catalog well-formedness: in TENSOR_ORDER, and in the catalog an    *)
(* export runs over, no two entries of the same stage share a name and     *)
(* every expected shape is a non-empty sequence of positive integers, and  *)
(* no step of an export changes the catalog.                               *)
(***************************************************************************)
CatalogWellFormed ==
  /\ [](WellFormed(TENSOR_ORDER) /\ WellFormed(catalog))
  /\ [][catalog' = catalog]_vars

\* an export over all twenty entries of the catalog has completed
CatalogWellFormedReached ==
  /\ pc = "done"
  /\ Len(catalog) = Len(TENSOR_ORDER)
  /\ \A k \in 1..Len(catalog) : catalog[k].name = TENSOR_ORDER[k].name
  /\ Len(entries) = Len(catalog)

\* what reader r has is what a reader running alone on the blob file has
AsAlone(r) ==
  LET alone == open(blob.bytes)
      mine  == readers[r]
  IN  /\ mine.handle.state = "Ready" => mine.handle = alone
      /\ mine.result.op # "none" => mine.handle.state = "Ready"
      /\ mine.result.op = "tensor" => mine.result = tensor(alone, mine.result.name)
      /\ mine.result.op = "verify" => mine.result = verify(alone, manifest.doc)
      /\ (mine.result.op = "tensor" /\ Cataloged(mine.result.name)) =>
           mine.result.bytes = AdapterBytes(files, CatalogIndex(mine.result.name))

\* a step of a reader leaves the files as they are
ReadOnlyStep == readers' # readers => (blob' = blob /\ manifest' = manifest)

(***************************************************************************)
(* C18  Concurrent reading: readers that run open, tensor and verify on    *)
(* the same blob file, in any interleaving of their steps, never change    *)
(* the file, and each has the results it would have running alone.         *)
(***************************************************************************)
ConcurrentReading == [](\A r \in Readers : AsAlone(r)) /\ [][ReadOnlyStep]_vars

\* one reader holds a tensor's bytes while another has verified the blob
ConcurrentReadingReached ==
  \E r, q \in Readers :
    /\ readers[r].result.op = "tensor"
    /\ readers[r].result.ok
    /\ readers[q].result.op = "verify"
    /\ readers[q].result.ok

\* every collected entry counts elements: the product of its dimensions, a
\* quarter of its bytes
EntriesCounted ==
  \A k \in 1..Len(entries) :
    /\ entries[k].len = Product(entries[k].shape)
    /\ Len(entries[k].bytes) = 4 * entries[k].len

\* the bytes a step has added to the blob file
Added == SubSeq(blob'.bytes, Len(blob.bytes) + 1, Len(blob'.bytes))

\* a completed write call: the record of a descriptor ends with the product
\* of its dimensions, and a payload is four bytes for each element
LengthStep ==
  /\ (pc = "descriptors" /\ pc' # "failed") =>
       SubSeq(Added, Len(Added) - 3, Len(Added)) = PackU32(Product(catalog[idx].shape))
  /\ (pc = "payload" /\ pc' # "failed") =>
       Len(Added) = 4 * Product(catalog[idx].shape)

(***************************************************************************)
(* C19  Length bookkeeping: for every entry an export writes, the element  *)
(* count of its descriptor is the product of its dimensions, and its       *)
(* payload is exactly four bytes for each element; the descriptor holds    *)
(* the element count, not the byte count.                                  *)
(***************************************************************************)
LengthBookkeeping == [](EntriesCounted) /\ [][LengthStep]_vars

\* an entry of two dimensions has been written: four elements in sixteen bytes
LengthBookkeepingReached ==
  /\ Produced
  /\ \E k \in 1..Len(entries) :
       /\ Len(entries[k].shape) = 2
       /\ entries[k].len = 4
       /\ Len(entries[k].bytes) = 16
       /\ DescriptorTable(blob.bytes).table[k].length = 4

\* the k-th cataloged tensor is missing from the source of its stage, or has another shape there
Offending(k) == ~Present(k) \/ SourceShape(k) # catalog[k].shape

\* the error of a run that failed a check is that of the first offending
\* descriptor in catalog order, absence before shape
FirstOffenderReported ==
  /\ error.kind # "none" => pc = "failed"
  /\ error.kind \in {"MissingTensor", "ShapeMismatch"} =>
       /\ idx \in 1..Len(catalog)
       /\ error.name = catalog[idx].name
       /\ \A k \in 1..(idx - 1) : ~Offending(k)
       /\ Offending(idx)
       /\ error.kind = "MissingTensor" <=> ~Present(idx)
       /\ Len(entries) = idx - 1

\* a failed run does nothing more: no later descriptor is looked up or checked
AbortedStep ==
  (pc = "failed" /\ run' = run) =>
    UNCHANGED <<pc, idx, entries, error, models, history>>

(***************************************************************************)
(* C20  Abort on first failure: when several cataloged tensors are missing *)
(* or mis-shaped, the export reports only the first offending descriptor   *)
(* in catalog order, absence before shape for one descriptor, and no       *)
(* descriptor after it is looked up or checked.                            *)
(***************************************************************************)
AbortOnFirstFailure == [](FirstOffenderReported) /\ [][AbortedStep]_vars

\* the first tensor is mis-shaped and the second is missing: the first is reported
AbortOnFirstFailureReached ==
  /\ pc = "failed"
  /\ error.kind = "ShapeMismatch"
  /\ idx = 1
  /\ Len(catalog) > 1
  /\ Offending(2)
  /\ entries = <<>>

\* the k-th cataloged tensor is in the source of the other stage
PresentElsewhere(k) ==
  \E st \in Stages \ {catalog[k].stage} :
    \E j \in 1..Len(models[st]) : models[st][j].key = catalog[k].name

\* the descriptors the loop over the catalog has passed
Passed == IF pc = "collect" \/ (pc = "failed" /\ error.kind # "Interrupted" /\ error.kind # "struct.error")
          THEN 1..(idx - 1) ELSE 1..Len(catalog)

(***************************************************************************)
(* C21  Stage-scoped lookup: every cataloged tensor is looked up only in   *)
(* the source of its own stage.  The loop passes a descriptor only when    *)
(* its name is in that source, the entry it collects holds the bytes of    *)
(* that source's tensor, and a name that is absent there makes the export  *)
(* fail with MissingTensor even when the other stage's source has it.      *)
(***************************************************************************)
StageScopedLookup ==
  pc # "load" =>
    /\ \A k \in Passed : Present(k)
    /\ \A k \in 1..Len(entries) :
         /\ entries[k].stage = catalog[k].stage
         /\ entries[k].bytes =
              float32_bytes_from_initializer(DictGet(models[catalog[k].stage], catalog[k].name))
    /\ error.kind = "MissingTensor" =>
         /\ ~Present(idx)
         /\ error.stage = catalog[idx].stage
    /\ (pc = "failed" /\ error.kind \in {"MissingTensor", "ShapeMismatch", "ValueError"}
          /\ ~Present(idx)) => error.kind = "MissingTensor"

\* the export has failed with MissingTensor for a name that only the other stage's source has
StageScopedLookupReached ==
  /\ pc = "failed"
  /\ error.kind = "MissingTensor"
  /\ ~Present(idx)
  /\ PresentElsewhere(idx)

\* the entry of each cataloged tensor, each extracted from the model files by itself
ExtractedAlone(fs) ==
  [k \in 1..Len(catalog) |-> MakeEntry(catalog[k], AdapterOutput(fs)[k])]

\* a step of the loop over the catalog adds the entry of the next descriptor
\* in catalog order; a write call adds bytes at the end of the blob file
\* and leaves the bytes before them as they are
SequentialStep ==
  /\ (run' = run /\ entries' # entries) =>
       /\ Len(entries') = Len(entries) + 1
       /\ SubSeq(entries', 1, Len(entries)) = entries
       /\ entries'[Len(entries')].name = catalog[Len(entries')].name
  /\ (pc \in {"header", "descriptors", "payload"} /\ blob' # blob) =>
       /\ Len(blob'.bytes) > Len(blob.bytes)
       /\ SubSeq(blob'.bytes, 1, Len(blob.bytes)) = blob.bytes

FailedCheck == pc = "failed" /\ error.kind \in {"MissingTensor", "ShapeMismatch"}

\* the files on disk are, byte for byte, the ones the latest completed export wrote
ArtifactsOfLast ==
  /\ blob.exists
  /\ blob.bytes = Last.blob
  /\ manifest.exists
  /\ manifest.doc = Last.manifest

\* the loop over the catalog writes no file, and the blob file is opened
\* only when every descriptor has passed both checks
ChecksBeforeOpenStep ==
  /\ (pc \in {"load", "collect"} /\ pc' \in {"collect", "failed"}) =>
       (blob' = blob /\ manifest' = manifest)
  /\ (pc = "collect" /\ pc' = "header") =>
       /\ Len(entries) = Len(catalog)
       /\ \A k \in 1..Len(catalog) : ~Offending(k)

(***************************************************************************)
(* C23  Failed export leaves earlier artifacts untouched: the checks of    *)
(* all catalog entries are over before the blob file is opened, so after   *)
(* an export has failed with MissingTensor or ShapeMismatch the blob and   *)
(* the manifest of an earlier completed export are on disk unchanged.      *)
(***************************************************************************)
FailureKeepsArtifacts ==
  /\ []((FailedCheck /\ history # <<>> /\ tamper = 0 /\ ~torn) => ArtifactsOfLast)
  /\ [][ChecksBeforeOpenStep]_vars

\* a second export has failed on a shape, and the files of the first are on disk
FailureKeepsArtifactsReached ==
  /\ run = 2
  /\ pc = "failed"
  /\ error.kind = "ShapeMismatch"
  /\ Len(history) = 1
  /\ ArtifactsOfLast
  /\ blob.bytes # <<>>

\* the blob file holds bytes the current run wrote
BlobOfThisRun ==
  /\ blob.exists
  /\ blob.bytes # <<>>
  /\ \/ pc \in {"header", "descriptors", "payload", "manifest", "done"}
     \/ pc = "failed" /\ error.kind \in {"Interrupted", "struct.error"}

\* the manifest file is absent, or is the one an earlier run wrote
ManifestOfNoRunOrEarlier ==
  \/ ~manifest.exists
  \/ /\ history # <<>>
     /\ Last.run # run
     /\ manifest.doc = Last.manifest

(***************************************************************************)
(* C24  Blob/manifest pair atomicity: at every point of an export run, a   *)
(* run that is stopped or fails while writing included, the blob file and  *)
(* the manifest file belong to the same run: the blob never holds bytes of *)
(* the current run while the manifest is absent or is an earlier run's.    *)
(***************************************************************************)
PairAtomicity == ~(BlobOfThisRun /\ ManifestOfNoRunOrEarlier)

\* element count of the k-th entry of TENSOR_ORDER at its full size
FullLen(k) == Product(TENSOR_ORDER[k].shape)

RECURSIVE FullOffset(_)
\* payload offset of the k-th entry of TENSOR_ORDER at its full size
FullOffset(k) == IF k = 1 THEN 0 ELSE FullOffset(k - 1) + 4 * FullLen(k - 1)

\* what the descriptor loop packs for the k-th entry of TENSOR_ORDER
FullRecord(k) ==
  [name |-> TENSOR_ORDER[k].name, shape |-> TENSOR_ORDER[k].shape, len |-> FullLen(k)]

\* length of the payload section of the blob of TENSOR_ORDER
FullPayload == FullOffset(Len(TENSOR_ORDER)) + 4 * FullLen(Len(TENSOR_ORDER))

\* every value the writer packs for TENSOR_ORDER is accepted by its struct.pack
FixedCatalogFits ==
  /\ Len(TENSOR_ORDER) = 20
  /\ FitsU32(Len(TENSOR_ORDER))
  /\ \A k \in 1..Len(TENSOR_ORDER) : DescriptorFits(FullRecord(k), FullOffset(k))
  /\ FullPayload = 3951108
  /\ FitsU32(FullPayload)

(***************************************************************************)
(* C25  Field widths of the fixed catalog: for the twenty entries of       *)
(* TENSOR_ORDER every dimension, payload offset and element count, and the *)
(* payload length of 3,951,108 bytes, fit an unsigned 32-bit field, every  *)
(* UTF-8 name length fits 16 bits and every dimension count 8 bits, so     *)
(* every struct.pack of the blob accepts its value; and no export of the   *)
(* model ends with struct.error.                                           *)
(***************************************************************************)
FieldWidths == FixedCatalogFits /\ error.kind # "struct.error"

\* the twenty records of the catalog have been packed and written
FieldWidthsReached ==
  /\ pc = "payload"
  /\ idx = 1
  /\ Len(entries) = Len(TENSOR_ORDER)
  /\ \A k \in 1..Len(entries) : entries[k].name = TENSOR_ORDER[k].name
  /\ offset = PayloadBytes(entries, Len(entries))

\* size of the descriptor record of the k-th catalog entry
RecordSize(k) == 2 + Len(Utf8Encode(catalog[k].name)) + 1 + 4 * Len(catalog[k].shape) + 8

RECURSIVE RecordsSize(_)
\* size of the descriptor records of the first k catalog entries
RecordsSize(k) == IF k = 0 THEN 0 ELSE RecordsSize(k - 1) + RecordSize(k)

RECURSIVE ElementsUpTo(_)
\* number of elements of the first k catalog entries
ElementsUpTo(k) == IF k = 0 THEN 0 ELSE ElementsUpTo(k - 1) + Product(catalog[k].shape)

(***************************************************************************)
(* C26  Exact file extent: the blob of a completed export is 14 bytes of   *)
(* header, then 2 + name_len + 1 + 4*dim_count + 8 bytes for each          *)
(* descriptor, then four bytes for each element; the payload section       *)
(* starts right after the last record, the slice of the last tensor ends   *)
(* at the end of the file, and every slice lies inside the payload         *)
(* section.                                                                *)
(***************************************************************************)
FileExtent ==
  Produced =>
    LET n == Len(catalog)
        t == DescriptorTable(blob.bytes)
        payload_len == Len(blob.bytes) - (HeaderSize + RecordsSize(n))
    IN  /\ Len(blob.bytes) = HeaderSize + RecordsSize(n) + 4 * ElementsUpTo(n)
        /\ t.ok
        /\ Len(t.table) = n
        /\ t.next = HeaderSize + RecordsSize(n) + 1
        /\ n > 0 => t.table[n].offset + 4 * t.table[n].length = payload_len
        /\ \A k \in 1..n :
             /\ t.table[k].offset >= 0
             /\ t.table[k].offset + 4 * t.table[k].length <= payload_len

\* the blob of the three-entry catalog, whose names take one, three and one byte, is complete
FileExtentReached ==
  /\ Produced
  /\ catalog = MixedOrder
  /\ RecordsSize(3) = 54
  /\ Len(blob.bytes) = 14 + 54 + 20

\* the names of the list are pairwise distinct, whatever their stages
NamesDistinct(order) ==
  \A i, j \in 1..Len(order) : i # j => Utf8Encode(order[i].name) # Utf8Encode(order[j].name)

\* the twenty names of TENSOR_ORDER are pairwise distinct across both stages
FixedNamesDistinct == Len(TENSOR_ORDER) = 20 /\ NamesDistinct(TENSOR_ORDER)

\* the catalog of the export is TENSOR_ORDER (with its shapes scaled)
FixedCatalog ==
  /\ Len(catalog) = Len(TENSOR_ORDER)
  /\ \A k \in 1..Len(catalog) :
       catalog[k].name = TENSOR_ORDER[k].name /\ catalog[k].stage = TENSOR_ORDER[k].stage

(***************************************************************************)
(* C27  Unambiguous name lookup: a descriptor record carries no stage, and *)
(* the twenty names of TENSOR_ORDER are distinct across both stages, so in *)
(* the blob of an export of that catalog the name of every catalog entry   *)
(* is the name of exactly one descriptor record, its own, and the slices   *)
(* of different records are different.                                     *)
(***************************************************************************)
UnambiguousNames ==
  /\ FixedNamesDistinct
  /\ (Produced /\ FixedCatalog) =>
       LET t == DescriptorTable(blob.bytes)
       IN  /\ t.ok
           /\ Len(t.table) = Len(catalog)
           /\ \A k \in 1..Len(catalog) :
                {j \in 1..Len(t.table) : t.table[j].name_bytes = Utf8Encode(catalog[k].name)} = {k}
           /\ \A i, j \in 1..Len(t.table) :
                i # j => t.table[i].offset # t.table[j].offset

\* the blob of the fixed catalog holds the records of both stages, eight and twelve
UnambiguousNamesReached ==
  /\ Produced
  /\ FixedCatalog
  /\ Cardinality({k \in 1..Len(catalog) : catalog[k].stage = "stage1"}) = 8
  /\ Cardinality({DescriptorTable(blob.bytes).table[k].name_bytes : k \in 1..Len(catalog)}) = 20

(***************************************************************************)
(* Vocabulary of the properties of auto_tune.py.                           *)
(***************************************************************************)
\* the values objective has returned to the study that are numbers
ReturnedValues == {study[k].value : k \in 1..Len(study)} \ {NaN}

\* v is the largest of the returned values, minus infinity when there is none above it
LargestReturned(v) ==
  /\ v \in ReturnedValues \cup {NegInf}
  /\ \A w \in ReturnedValues : ~Greater(w, v)

\* a call of objective that ended in its except clause
ExceptionPath ==
  \/ \E params \in Suggestions : ObjectiveRaises(params)
  \/ \E params \in Suggestions, score \in Scores, saved \in BOOLEAN :
       ObjectiveRaisesSaving(params, score, saved)

\* some trial gave the study a value above minus infinity
SomeTrialSucceeded == \E k \in 1..Len(study) : Greater(study[k].value, NegInf)

(***************************************************************************)
(* C28  Best-trial tracking: trial_count is the number of objective calls, *)
(* best_score is the largest value objective has returned to the study     *)
(* (minus infinity if every trial failed) and never decreases, best_params *)
(* are the parameters of a trial that returned best_score, and a call that *)
(* ends in the exception path changes neither best_score nor best_params.  *)
(***************************************************************************)
BestTrialTracking ==
  /\ [](/\ trial_count = Len(study)
        /\ LargestReturned(best_score)
        /\ best_params # None =>
             \E k \in 1..Len(study) :
               study[k].params = best_params.dict /\ study[k].value = best_score)
  /\ [][/\ ~Greater(best_score, best_score')
        /\ ExceptionPath => UNCHANGED <<best_score, best_params>>]_vars

(***************************************************************************)
(* C29  Optimization outcome: optimize returns None exactly when no trial  *)
(* completed successfully, which is when best_params is None or best_score *)
(* is minus infinity, and otherwise returns best_params; main writes       *)
(* best_parameters.json only when optimize returned parameters, otherwise  *)
(* it exits with status 1 and does not write it; the study CSV is written  *)
(* in both cases.                                                          *)
(***************************************************************************)
OptimizationOutcome ==
  /\ tunePc \in {"returned", "done"} =>
       /\ returned = None <=> ~SomeTrialSucceeded
       /\ ~SomeTrialSucceeded <=> (best_params = None \/ best_score = NegInf)
       /\ returned # None => returned = best_params
       /\ written.study_csv
  /\ tunePc = "done" =>
       /\ written.best_parameters # None <=> returned # None
       /\ returned # None => written.best_parameters = returned /\ exit_status = 0
       /\ returned = None => exit_status = 1
  /\ tunePc # "done" => written.best_parameters = None
====
